---------------------------- MODULE Spec2Model ----------------------------
(***************************************************************************)
(* Merkle commitment service: MerkleNode / MerkleTree construction,        *)
(* generate_proof, MerkleProof::verify, and the MemoryStorage that guards  *)
(* the commitment list and the current tree with two tokio RwLocks.        *)
(*                                                                         *)
(* Byte strings.  A committed value is summarised by the pair              *)
(* <<len, fill>>: its length in bytes and a tag that tells apart values of *)
(* the same length.  A digest is a sequence of integers.  Sha256 is taken  *)
(* to be collision free: it wraps its input between the markers -1 and -2, *)
(* so two inputs have the same digest exactly when they are equal, and the *)
(* concatenation of two digests splits in one way only (digests have a     *)
(* fixed length in the program).                                           *)
(***************************************************************************)
EXTENDS Integers, Sequences, FiniteSets, TLC

\* ------------------------------------------------------------------ bounds
MaxLeaves == 8
NumValues == 8
NumProcs == 2
MaxAdds == 3
\* the size ceiling of AddCommitmentRequest::validate
MaxValueLen == 1000000

VARIABLES
    \* --- proof.rs exercised as in its tests: build, prove, verify
    values,      \* the raw values handed to MerkleNode::new_leaf, in order
    mtree,       \* the MerkleTree returned by from_leaves
    stage,       \* "collect" | "built" | "proved" | "verified" | "tampered"
    call,        \* arguments of generate_proof: [target_index, total_leaves]
    gen,         \* outcome of generate_proof: [panic, proof]
    mproof,      \* the MerkleProof handed to verify
    tamper,      \* what was changed in mproof: [kind, pos]
    honest,      \* verdict of verify on the untampered proof
    verdict,     \* verdict of verify on mproof
    \* --- MemoryStorage and its callers
    commitments, \* MemoryStorage.commitments: Vec<Commitment>
    tree,        \* MemoryStorage.tree: MerkleTree
    cl,          \* the RwLock around commitments: [writer, readers, queue]
    tl,          \* the RwLock around tree
    pc,          \* where each caller stands in its current storage call
    loc,         \* each caller's locals in that call
    ret,         \* what each caller's last completed call returned
    prev,        \* during a call: what the caller's previous call observed
    installs,    \* history: how many times add_commitment replaced the tree
    addLog       \* history: the (index, root) pairs add_commitment returned

proofVars == <<values, mtree, stage, call, gen, mproof, tamper, honest, verdict>>
storeVars == <<commitments, tree, cl, tl, pc, loc, ret, prev, installs, addLog>>
vars == <<values, mtree, stage, call, gen, mproof, tamper, honest, verdict,
          commitments, tree, cl, tl, pc, loc, ret, prev, installs, addLog>>

\* ------------------------------------------------------------ digest model
\* Sha256::new(); update(bytes); finalize()
Sha256(bytes) == <<-1>> \o bytes \o <<-2>>

\* Option<T>: None is <<>>, Some(x) is <<x>>
None == <<>>
Some(x) == <<x>>
IsNone(o) == o = <<>>
Unwrap(o) == o[1]

\* ------------------------------------------------------------- merkle.rs
\* MerkleNode::new_leaf
new_leaf(data) == [hash |-> Sha256(data), left |-> None, right |-> None]

\* MerkleNode::new_parent
new_parent(l, r) ==
    [hash |-> Sha256(l.hash \o r.hash), left |-> Some(l), right |-> Some(r)]

\* MerkleNode::is_leaf
is_leaf(node) == IsNone(node.left) /\ IsNone(node.right)

\* one pass of the for loop over current_level.chunks(2)
NextLevelPromotingOdd(current_level) ==
    [k \in 1..((Len(current_level) + 1) \div 2) |->
        IF 2 * k <= Len(current_level)
        THEN new_parent(current_level[2 * k - 1], current_level[2 * k])
        ELSE current_level[2 * k - 1]]

NextLevel(current_level) ==
    [k \in 1..((Len(current_level) + 1) \div 2) |->
        IF 2 * k <= Len(current_level)
        THEN new_parent(current_level[2 * k - 1], current_level[2 * k])
        ELSE new_parent(current_level[2 * k - 1], current_level[2 * k - 1])]

\* the while loop of build_tree
RECURSIVE Reduce(_)
Reduce(current_level) ==
    IF Len(current_level) > 1
    THEN Reduce(NextLevel(current_level))
    ELSE current_level

\* MerkleTree::build_tree
build_tree(leaves) ==
    IF leaves = <<>> THEN None ELSE Some(Reduce(leaves)[1])

\* MerkleTree::new
EmptyTree == [root |-> None, leaf_count |-> 0]

\* MerkleTree::from_leaves
from_leaves(leaves) == [root |-> build_tree(leaves), leaf_count |-> Len(leaves)]

\* MerkleTree::root_hash
root_hashOrEmpty(t) == IF IsNone(t.root) THEN Some(<<>>) ELSE Some(Unwrap(t.root).hash)

root_hash(t) == IF IsNone(t.root) THEN None ELSE Some(Unwrap(t.root).hash)

\* ------------------------------------------------------------- proof.rs
\* size of the left subtree assumed by generate_proof::helper
LeftCount(leaves_count) == (leaves_count + 1) \div 2

Panic == [panic |-> TRUE, proof |-> <<>>]
Ok(p) == [panic |-> FALSE, proof |-> p]

\* the push after the recursive call; a panic below propagates
PushElem(res, h, isLeft) ==
    IF res.panic THEN Panic
    ELSE Ok(Append(res.proof, [hash |-> h, is_left |-> isLeft]))

\* generate_proof::helper.  node.left.as_ref().unwrap() panics on None.
RECURSIVE helper(_, _, _, _)
helper(node, idx, begin, leaves_count) ==
    IF is_leaf(node) THEN Ok(<<>>)
    ELSE LET left_count  == LeftCount(leaves_count)
             right_count == leaves_count - left_count
             right_begin == begin + left_count
         IN  IF IsNone(node.left) THEN Panic
             ELSE LET left  == Unwrap(node.left)
                      right == IF IsNone(node.right) THEN left
                               ELSE Unwrap(node.right)
                  IN  IF idx < begin + left_count
                      THEN PushElem(helper(left, idx, begin, left_count),
                                    right.hash, FALSE)
                      ELSE PushElem(helper(right, idx, right_begin, right_count),
                                    left.hash, TRUE)

\* the descent of generate_proof::helper: one entry per internal node it
\* visits, with the index range [begin, begin + leaves_count) it assumes for
\* the node and the child it recurses into
RECURSIVE helperDescent(_, _, _, _)
helperDescent(node, idx, begin, leaves_count) ==
    IF is_leaf(node) \/ IsNone(node.left) THEN <<>>
    ELSE LET left_count  == LeftCount(leaves_count)
             right_count == leaves_count - left_count
             right_begin == begin + left_count
             left  == Unwrap(node.left)
             right == IF IsNone(node.right) THEN left ELSE Unwrap(node.right)
         IN  IF idx < begin + left_count
             THEN <<[node |-> node, begin |-> begin,
                     leaves_count |-> leaves_count, child |-> left]>>
                    \o helperDescent(left, idx, begin, left_count)
             ELSE <<[node |-> node, begin |-> begin,
                     leaves_count |-> leaves_count, child |-> right]>>
                    \o helperDescent(right, idx, right_begin, right_count)

\* generate_proof
generate_proof(root, target_index, total_leaves) ==
    helper(root, target_index, 0, total_leaves)

\* one iteration of the for loop of MerkleProof::verify
CombineIgnoringSide(current_hash, element) ==
    Sha256(current_hash \o element.hash)

Combine(current_hash, element) ==
    IF element.is_left
    THEN Sha256(element.hash \o current_hash)
    ELSE Sha256(current_hash \o element.hash)

\* current_hash after the first k proof elements
RECURSIVE RunningHash(_, _, _)
RunningHash(value, proof, k) ==
    IF k = 0 THEN Sha256(value)
    ELSE Combine(RunningHash(value, proof, k - 1), proof[k])

\* MerkleProof::verify
verify(p) == RunningHash(p.value, p.proof, Len(p.proof)) = p.root

\* MerkleProof::new
NewProof(index, value, proof, root) ==
    [index |-> index, value |-> value, proof |-> proof, root |-> root]

\* ------------------------------------------- proof.rs driven as its tests
\* raw values: byte strings of length 1..NumValues (hence pairwise distinct
\* when taken in increasing order)
Values == {<<n, 1>> : n \in 1..NumValues}

NoProof == NewProof(0, <<0, 0>>, <<>>, <<>>)
NoTamper == [kind |-> "none", pos |-> 0]

InitProofVars ==
    /\ values = <<>>
    /\ mtree = EmptyTree
    /\ stage = "collect"
    /\ call = [target_index |-> 0, total_leaves |-> 0]
    /\ gen = Ok(<<>>)
    /\ mproof = NoProof
    /\ tamper = NoTamper
    /\ honest = FALSE
    /\ verdict = FALSE

\* one more distinct value for the leaves vector
PushValue(v) ==
    /\ stage = "collect"
    /\ Len(values) < MaxLeaves
    /\ \A i \in 1..Len(values) : values[i][1] < v[1]
    /\ values' = Append(values, v)
    /\ UNCHANGED <<mtree, stage, call, gen, mproof, tamper, honest, verdict>>
    /\ UNCHANGED storeVars

\* let tree = MerkleTree::from_leaves(leaves)
FromLeaves ==
    /\ stage = "collect"
    /\ mtree' = from_leaves([i \in 1..Len(values) |-> new_leaf(values[i])])
    /\ stage' = "built"
    /\ UNCHANGED <<values, call, gen, mproof, tamper, honest, verdict>>
    /\ UNCHANGED storeVars

\* let root = tree.root().unwrap(); generate_proof(root, i, total)
GenerateProof(i, total) ==
    /\ stage = "built"
    /\ ~IsNone(mtree.root)
    /\ call' = [target_index |-> i, total_leaves |-> total]
    /\ gen' = generate_proof(Unwrap(mtree.root), i, total)
    /\ stage' = "proved"
    /\ UNCHANGED <<values, mtree, mproof, tamper, honest, verdict>>
    /\ UNCHANGED storeVars

\* MerkleProof::new(i, values[i], proof_elements, root.hash).verify(), for a
\* proof generated as get_proof does: generate_proof(root, i, tree.leaf_count())
VerifyProof ==
    /\ stage = "proved"
    /\ ~gen.panic
    /\ call.target_index < Len(values)
    /\ call.total_leaves = mtree.leaf_count
    /\ LET p == NewProof(call.target_index, values[call.target_index + 1],
                         gen.proof, Unwrap(mtree.root).hash)
       IN  /\ mproof' = p
           /\ honest' = verify(p)
           /\ verdict' = verify(p)
    /\ stage' = "verified"
    /\ UNCHANGED <<values, mtree, call, gen, tamper>>
    /\ UNCHANGED storeVars

\* every digest of the tree
RECURSIVE NodeHashes(_)
NodeHashes(node) ==
    {node.hash}
      \cup (IF IsNone(node.left) THEN {} ELSE NodeHashes(Unwrap(node.left)))
      \cup (IF IsNone(node.right) THEN {} ELSE NodeHashes(Unwrap(node.right)))

\* digests a tamperer may substitute: any digest of the tree and one digest
\* that occurs nowhere in it
Digests ==
    (IF IsNone(mtree.root) THEN {} ELSE NodeHashes(Unwrap(mtree.root)))
      \cup {Sha256(<<0, 0>>)}

\* the verifier is handed the proof with one component changed
Submit(p, kind, pos) ==
    /\ mproof' = p
    /\ verdict' = verify(p)
    /\ tamper' = [kind |-> kind, pos |-> pos]
    /\ stage' = "tampered"
    /\ UNCHANGED <<values, mtree, call, gen, honest>>
    /\ UNCHANGED storeVars

TamperValue(v) ==
    /\ stage = "verified"
    /\ v # mproof.value
    /\ Submit([mproof EXCEPT !.value = v], "value", 0)

TamperHash(k, h) ==
    /\ stage = "verified"
    /\ k \in 1..Len(mproof.proof)
    /\ h # mproof.proof[k].hash
    /\ Submit([mproof EXCEPT !.proof[k].hash = h], "hash", k)

TamperFlag(k) ==
    /\ stage = "verified"
    /\ k \in 1..Len(mproof.proof)
    /\ Submit([mproof EXCEPT !.proof[k].is_left = ~mproof.proof[k].is_left],
              "flag", k)

TamperRoot(h) ==
    /\ stage = "verified"
    /\ h # mproof.root
    /\ Submit([mproof EXCEPT !.root = h], "root", 0)

\* ------------------------------------------------------------ memory.rs
Procs == 1..NumProcs

\* tokio::sync::RwLock: any number of readers or one writer; tasks that wait
\* are served first in, first out
FreeLock == [writer |-> 0, readers |-> {}, queue |-> <<>>]

\* .read().await / .write().await: the caller joins the queue
Enqueue(lock, p, w) ==
    [lock EXCEPT !.queue = Append(@, [proc |-> p, write |-> w])]

\* the caller at the head of the queue gets the lock once it is compatible
\* with the guards that are out
CanGrantReadersPastWriter(lock, p) ==
    /\ lock.queue # <<>>
    /\ Head(lock.queue).proc = p
    /\ Head(lock.queue).write => (lock.writer = 0 /\ lock.readers = {})

CanGrantWithoutExclusion(lock, p) ==
    /\ lock.queue # <<>>
    /\ Head(lock.queue).proc = p

CanGrant(lock, p) ==
    /\ lock.queue # <<>>
    /\ Head(lock.queue).proc = p
    /\ lock.writer = 0
    /\ Head(lock.queue).write => lock.readers = {}

Grant(lock, p) ==
    [lock EXCEPT !.queue = Tail(@),
                 !.writer = IF Head(lock.queue).write THEN p ELSE @,
                 !.readers = IF Head(lock.queue).write THEN @ ELSE @ \cup {p}]

\* the guard is dropped
ReleaseNever(lock, p) == lock

Release(lock, p) ==
    [lock EXCEPT !.writer = IF @ = p THEN 0 ELSE @,
                 !.readers = @ \ {p}]

\* Commitment::new
NewCommitmentWithLeafHash(index, value, merkle_root) ==
    [index |-> index, value |-> value, merkle_root |-> Sha256(value)]

NewCommitment(index, value, merkle_root) ==
    [index |-> index, value |-> value, merkle_root |-> merkle_root]

\* AddCommitmentRequest::validate
validateOffByOne(value) ==
    IF value[1] = 0 THEN "Value cannot be empty"
    ELSE IF value[1] >= MaxValueLen THEN "Value too large (max 1MB)"
    ELSE "Ok"

validate(value) ==
    IF value[1] = 0 THEN "Value cannot be empty"
    ELSE IF value[1] > MaxValueLen THEN "Value too large (max 1MB)"
    ELSE "Ok"

\* request bodies: the empty value, a one-byte value, a value of exactly the
\* ceiling and one a byte over it
ReqValues == {<<0, 0>>, <<1, 1>>, <<MaxValueLen, 1>>, <<MaxValueLen + 1, 1>>}

\* the leaves add_commitment builds: one per stored commitment, then the
\* new value
LeavesWithoutNew(cs, value) ==
    [i \in 1..Len(cs) |-> new_leaf(cs[i].value)]

LeavesFor(cs, value) ==
    [i \in 1..Len(cs) + 1 |->
        IF i <= Len(cs) THEN new_leaf(cs[i].value) ELSE new_leaf(value)]

\* commitments.push(commitment)
PushRewritingRoots(cs, c) ==
    [i \in 1..Len(cs) + 1 |->
        IF i <= Len(cs) THEN [cs[i] EXCEPT !.merkle_root = c.merkle_root]
        ELSE c]

Push(cs, c) == Append(cs, c)

\* commitments.get(index).cloned()
VecGetOffByOne(cs, index) ==
    IF index + 1 < Len(cs) THEN Some(cs[index + 1]) ELSE None

VecGet(cs, index) ==
    IF index < Len(cs) THEN Some(cs[index + 1]) ELSE None

NoLoc ==
    [op |-> "none", value |-> <<0, 0>>, arg |-> 0, index |-> 0,
     tree |-> EmptyTree, merkle_root |-> <<>>]

\* a call's result.  err is "Ok" or the AppError variant; at (history) is
\* the number of trees installed when the call read the store, leaf_count
\* (history) the leaf count of the tree a tree read looked at.
Result(op, err) ==
    [op |-> op, err |-> err, value |-> <<0, 0>>, arg |-> 0, index |-> 0,
     root |-> <<>>, list |-> <<>>, tree |-> EmptyTree, count |-> 0,
     proof |-> <<>>, leaf_count |-> 0, at |-> 0]

NoObs == [kind |-> "none", n |-> 0, at |-> 0]

\* what a completed call saw of the pair (commitment list, tree)
ObsOf(r) ==
    IF r.err # "Ok" /\ r.op # "get_root_hash" THEN NoObs
    ELSE IF r.op = "get_all_commitments"
         THEN [kind |-> "list", n |-> Len(r.list), at |-> r.at]
    ELSE IF r.op = "commitment_count"
         THEN [kind |-> "list", n |-> r.count, at |-> r.at]
    ELSE IF r.op \in {"get_tree", "get_root_hash"}
         THEN [kind |-> "tree", n |-> r.leaf_count, at |-> r.at]
    ELSE NoObs

\* MemoryStorage::new
InitStoreVars ==
    /\ commitments = <<>>
    /\ tree = EmptyTree
    /\ cl = FreeLock
    /\ tl = FreeLock
    /\ pc = [p \in Procs |-> "idle"]
    /\ loc = [p \in Procs |-> NoLoc]
    /\ ret = [p \in Procs |-> Result("none", "none")]
    /\ prev = [p \in Procs |-> NoObs]
    /\ installs = 0
    /\ addLog = <<>>

\* a call starts: the caller keeps what its last call saw of the store
Invoke(p, op, v, i) ==
    /\ pc[p] = "idle"
    /\ loc' = [loc EXCEPT ![p] = [NoLoc EXCEPT !.op = op, !.value = v, !.arg = i]]
    /\ prev' = [prev EXCEPT ![p] = ObsOf(ret[p])]
    /\ ret' = [ret EXCEPT ![p] = Result("none", "none")]

\* the call completes with result r
Return(p, r) ==
    /\ ret' = [ret EXCEPT ![p] = r]
    /\ prev' = [prev EXCEPT ![p] = NoObs]
    /\ loc' = [loc EXCEPT ![p] = NoLoc]
    /\ pc' = [pc EXCEPT ![p] = "idle"]

\* add_commitment calls that have not pushed yet
AddsPending == Cardinality({p \in Procs : pc[p] \in {"a_wait", "a_locked", "a_built"}})

\* handlers::commitment::add_commitment: validate, then storage.add_commitment
\* up to its first await
HandlerAddCommitment(p, v) ==
    /\ pc[p] = "idle"
    /\ Len(commitments) + AddsPending < MaxAdds
    /\ IF validate(v) # "Ok"
       THEN /\ Return(p, [Result("add_commitment", "InvalidInput")
                            EXCEPT !.value = v])
            /\ UNCHANGED <<commitments, tree, cl, tl, installs, addLog>>
       ELSE /\ Invoke(p, "add_commitment", v, 0)
            /\ cl' = Enqueue(cl, p, TRUE)
            /\ pc' = [pc EXCEPT ![p] = "a_wait"]
            /\ UNCHANGED <<commitments, tree, tl, installs, addLog>>
    /\ UNCHANGED proofVars

\* let mut commitments = self.commitments.write().await
AcquireCommitmentsWrite(p) ==
    /\ pc[p] = "a_wait"
    /\ CanGrant(cl, p)
    /\ cl' = Grant(cl, p)
    /\ pc' = [pc EXCEPT ![p] = "a_locked"]
    /\ UNCHANGED <<commitments, tree, tl, loc, ret, prev, installs, addLog>>
    /\ UNCHANGED proofVars

\* index = commitments.len(); leaves; MerkleTree::from_leaves; root_hash
BuildTree(p) ==
    /\ pc[p] = "a_locked"
    /\ LET t == from_leaves(LeavesFor(commitments, loc[p].value))
           r == root_hash(t)
       IN  IF IsNone(r)
           THEN /\ Return(p, [Result("add_commitment", "TreeBuildError")
                                EXCEPT !.value = loc[p].value])
                /\ cl' = Release(cl, p)
           ELSE /\ loc' = [loc EXCEPT ![p].index = Len(commitments),
                                      ![p].tree = t,
                                      ![p].merkle_root = Unwrap(r)]
                /\ pc' = [pc EXCEPT ![p] = "a_built"]
                /\ UNCHANGED <<cl, ret, prev>>
    /\ UNCHANGED <<commitments, tree, tl, installs, addLog>>
    /\ UNCHANGED proofVars

\* commitments.push(commitment); then self.tree.write() is awaited
PushCommitment(p) ==
    /\ pc[p] = "a_built"
    /\ commitments' = Push(commitments,
           NewCommitment(loc[p].index, loc[p].value, loc[p].merkle_root))
    /\ tl' = Enqueue(tl, p, TRUE)
    /\ pc' = [pc EXCEPT ![p] = "a_twait"]
    /\ UNCHANGED <<tree, cl, loc, ret, prev, installs, addLog>>
    /\ UNCHANGED proofVars

\* self.tree.write().await
AcquireTreeWrite(p) ==
    /\ pc[p] = "a_twait"
    /\ CanGrant(tl, p)
    /\ tl' = Grant(tl, p)
    /\ pc' = [pc EXCEPT ![p] = "a_swap"]
    /\ UNCHANGED <<commitments, tree, cl, loc, ret, prev, installs, addLog>>
    /\ UNCHANGED proofVars

\* *guard = tree
StoreTreeKeepsOld(old, new) == old

StoreTree(old, new) == new

\* *self.tree.write().await = tree; the tree guard is dropped at the end of
\* the statement
SwapTree(p) ==
    /\ pc[p] = "a_swap"
    /\ tree' = StoreTree(tree, loc[p].tree)
    /\ tl' = Release(tl, p)
    /\ installs' = installs + 1
    /\ pc' = [pc EXCEPT ![p] = "a_ret"]
    /\ UNCHANGED <<commitments, cl, loc, ret, prev, addLog>>
    /\ UNCHANGED proofVars

\* Ok((index, merkle_root)); the commitments guard is dropped
ReturnAdd(p) ==
    /\ pc[p] = "a_ret"
    /\ Return(p, [Result("add_commitment", "Ok")
                    EXCEPT !.value = loc[p].value, !.index = loc[p].index,
                           !.root = loc[p].merkle_root, !.at = installs])
    /\ cl' = Release(cl, p)
    /\ addLog' = Append(addLog, [index |-> loc[p].index,
                                 root |-> loc[p].merkle_root])
    /\ UNCHANGED <<commitments, tree, tl, installs>>
    /\ UNCHANGED proofVars

ListOps == {"get_commitment", "get_all_commitments", "commitment_count"}
TreeOps == {"get_tree", "get_root_hash"}

\* get_commitment(i), get_all_commitments(), commitment_count() up to
\* self.commitments.read().await
CallListRead(p, op, i) ==
    /\ op \in ListOps
    /\ op # "get_commitment" => i = 0
    /\ Invoke(p, op, <<0, 0>>, i)
    /\ cl' = Enqueue(cl, p, FALSE)
    /\ pc' = [pc EXCEPT ![p] = "rc_wait"]
    /\ UNCHANGED <<commitments, tree, tl, installs, addLog>>
    /\ UNCHANGED proofVars

AcquireCommitmentsRead(p) ==
    /\ pc[p] = "rc_wait"
    /\ CanGrant(cl, p)
    /\ cl' = Grant(cl, p)
    /\ pc' = [pc EXCEPT ![p] = "rc_held"]
    /\ UNCHANGED <<commitments, tree, tl, loc, ret, prev, installs, addLog>>
    /\ UNCHANGED proofVars

\* the body of get_commitment / get_all_commitments / commitment_count; the
\* read guard is dropped on return
ListReadResult(op, i) ==
    IF op = "get_commitment"
    THEN LET c == VecGet(commitments, i)
         IN  IF IsNone(c)
             THEN [Result(op, "NotFound") EXCEPT !.arg = i, !.at = installs]
             ELSE [Result(op, "Ok") EXCEPT !.arg = i, !.list = c,
                                           !.at = installs]
    ELSE IF op = "get_all_commitments"
    THEN [Result(op, "Ok") EXCEPT !.list = commitments, !.at = installs]
    ELSE [Result(op, "Ok") EXCEPT !.count = Len(commitments), !.at = installs]

ReturnListRead(p) ==
    /\ pc[p] = "rc_held"
    /\ Return(p, ListReadResult(loc[p].op, loc[p].arg))
    /\ cl' = Release(cl, p)
    /\ UNCHANGED <<commitments, tree, tl, installs, addLog>>
    /\ UNCHANGED proofVars

\* get_tree(), get_root_hash() up to self.tree.read().await
CallTreeRead(p, op) ==
    /\ op \in TreeOps
    /\ Invoke(p, op, <<0, 0>>, 0)
    /\ tl' = Enqueue(tl, p, FALSE)
    /\ pc' = [pc EXCEPT ![p] = "rt_wait"]
    /\ UNCHANGED <<commitments, tree, cl, installs, addLog>>
    /\ UNCHANGED proofVars

AcquireTreeRead(p) ==
    /\ pc[p] = "rt_wait"
    /\ CanGrant(tl, p)
    /\ tl' = Grant(tl, p)
    /\ pc' = [pc EXCEPT ![p] = "rt_held"]
    /\ UNCHANGED <<commitments, tree, cl, loc, ret, prev, installs, addLog>>
    /\ UNCHANGED proofVars

\* the body of get_tree / get_root_hash
TreeReadResult(op) ==
    IF op = "get_tree"
    THEN [Result(op, "Ok") EXCEPT !.tree = tree,
                                  !.leaf_count = tree.leaf_count,
                                  !.at = installs]
    ELSE LET r == root_hash(tree)
         IN  IF IsNone(r)
             THEN [Result(op, "NotFound") EXCEPT
                       !.leaf_count = tree.leaf_count, !.at = installs]
             ELSE [Result(op, "Ok") EXCEPT !.root = Unwrap(r),
                       !.leaf_count = tree.leaf_count, !.at = installs]

ReturnTreeRead(p) ==
    /\ pc[p] = "rt_held"
    /\ Return(p, TreeReadResult(loc[p].op))
    /\ tl' = Release(tl, p)
    /\ UNCHANGED <<commitments, tree, cl, installs, addLog>>
    /\ UNCHANGED proofVars

\* ------------------------------------------ handlers::proof::get_proof
\* state.storage.get_commitment(index) up to self.commitments.read().await
GetProof(p, i) ==
    /\ Invoke(p, "get_proof", <<0, 0>>, i)
    /\ cl' = Enqueue(cl, p, FALSE)
    /\ pc' = [pc EXCEPT ![p] = "gp_cwait"]
    /\ UNCHANGED <<commitments, tree, tl, installs, addLog>>
    /\ UNCHANGED proofVars

GetProofAcquireCommitments(p) ==
    /\ pc[p] = "gp_cwait"
    /\ CanGrant(cl, p)
    /\ cl' = Grant(cl, p)
    /\ pc' = [pc EXCEPT ![p] = "gp_cheld"]
    /\ UNCHANGED <<commitments, tree, tl, loc, ret, prev, installs, addLog>>
    /\ UNCHANGED proofVars

\* let commitment = state.storage.get_commitment(index).await?  The handler
\* remembers (history, in prev) that it saw index + 1 commitments at least,
\* and how many trees were installed then.
GetProofCommitment(p) ==
    /\ pc[p] = "gp_cheld"
    /\ LET r == ListReadResult("get_commitment", loc[p].arg)
       IN  IF r.err # "Ok"
           THEN Return(p, [Result("get_proof", r.err)
                             EXCEPT !.arg = loc[p].arg, !.at = installs])
           ELSE /\ loc' = [loc EXCEPT ![p].value = Unwrap(r.list).value]
                /\ prev' = [prev EXCEPT ![p] = [kind |-> "item",
                                                 n |-> loc[p].arg + 1,
                                                 at |-> installs]]
                /\ pc' = [pc EXCEPT ![p] = "gp_got"]
                /\ UNCHANGED ret
    /\ cl' = Release(cl, p)
    /\ UNCHANGED <<commitments, tree, tl, installs, addLog>>
    /\ UNCHANGED proofVars

\* state.storage.get_tree() up to self.tree.read().await
GetProofCallGetTree(p) ==
    /\ pc[p] = "gp_got"
    /\ tl' = Enqueue(tl, p, FALSE)
    /\ pc' = [pc EXCEPT ![p] = "gp_twait"]
    /\ UNCHANGED <<commitments, tree, cl, loc, ret, prev, installs, addLog>>
    /\ UNCHANGED proofVars

GetProofAcquireTree(p) ==
    /\ pc[p] = "gp_twait"
    /\ CanGrant(tl, p)
    /\ tl' = Grant(tl, p)
    /\ pc' = [pc EXCEPT ![p] = "gp_theld"]
    /\ UNCHANGED <<commitments, tree, cl, loc, ret, prev, installs, addLog>>
    /\ UNCHANGED proofVars

\* what the handler answers from the tree it cloned: tree.root().ok_or(
\* NotFound)?, generate_proof(root, index, tree.leaf_count()) (a panic of
\* the helper ends the request), MerkleProof::new
GetProofResult(t, index, value) ==
    IF IsNone(t.root)
    THEN [Result("get_proof", "NotFound") EXCEPT
              !.arg = index, !.leaf_count = t.leaf_count, !.at = installs]
    ELSE LET g == generate_proof(Unwrap(t.root), index, t.leaf_count)
         IN  IF g.panic
             THEN [Result("get_proof", "Panic") EXCEPT
                       !.arg = index, !.leaf_count = t.leaf_count,
                       !.at = installs]
             ELSE LET mp == NewProof(index, value, g.proof, Unwrap(t.root).hash)
                  IN  [Result("get_proof", "Ok") EXCEPT
                           !.arg = mp.index, !.value = mp.value,
                           !.proof = mp.proof, !.root = mp.root,
                           !.leaf_count = t.leaf_count, !.at = installs]

\* let tree = state.storage.get_tree().await? and the rest of the handler
GetProofReturn(p) ==
    /\ pc[p] = "gp_theld"
    /\ Return(p, GetProofResult(tree, loc[p].arg, loc[p].value))
    /\ tl' = Release(tl, p)
    /\ UNCHANGED <<commitments, tree, cl, installs, addLog>>
    /\ UNCHANGED proofVars

\* the steps of a call that is under way
Step(p) ==
    \/ AcquireCommitmentsWrite(p)
    \/ BuildTree(p)
    \/ PushCommitment(p)
    \/ AcquireTreeWrite(p)
    \/ SwapTree(p)
    \/ ReturnAdd(p)
    \/ AcquireCommitmentsRead(p)
    \/ ReturnListRead(p)
    \/ AcquireTreeRead(p)
    \/ ReturnTreeRead(p)

Init == InitStoreVars /\ InitProofVars

\* the callers' steps, with request values drawn from vals and
\* get_commitment indices from idxs
NextOver(vals, idxs) ==
    \/ \E p \in Procs, v \in vals : HandlerAddCommitment(p, v)
    \/ \E p \in Procs : AcquireCommitmentsWrite(p)
    \/ \E p \in Procs : BuildTree(p)
    \/ \E p \in Procs : PushCommitment(p)
    \/ \E p \in Procs : AcquireTreeWrite(p)
    \/ \E p \in Procs : SwapTree(p)
    \/ \E p \in Procs : ReturnAdd(p)
    \/ \E p \in Procs, op \in ListOps, i \in idxs : CallListRead(p, op, i)
    \/ \E p \in Procs : AcquireCommitmentsRead(p)
    \/ \E p \in Procs : ReturnListRead(p)
    \/ \E p \in Procs, op \in TreeOps : CallTreeRead(p, op)
    \/ \E p \in Procs : AcquireTreeRead(p)
    \/ \E p \in Procs : ReturnTreeRead(p)

Next == NextOver(ReqValues, 0..MaxAdds)

Spec == Init /\ [][Next]_vars

\* whether a call returns does not depend on the bytes or the index it was
\* given: one rejected and one accepted value, one index
LiveValues == {<<0, 0>>, <<1, 1>>}
NextLive == NextOver(LiveValues, {0})

\* the locks serve their queues and every task that can run is polled
Fairness == \A p \in Procs : WF_vars(Step(p))

SpecLive == Init /\ [][NextLive]_vars /\ Fairness

\* the get_proof handler among concurrent add_commitment calls and reads:
\* what the handler meets does not depend on the bytes committed
NextGetProof ==
    \/ NextOver(LiveValues, 0..MaxAdds)
    \/ \E p \in Procs, i \in 0..MaxAdds : GetProof(p, i)
    \/ \E p \in Procs : GetProofAcquireCommitments(p)
    \/ \E p \in Procs : GetProofCommitment(p)
    \/ \E p \in Procs : GetProofCallGetTree(p)
    \/ \E p \in Procs : GetProofAcquireTree(p)
    \/ \E p \in Procs : GetProofReturn(p)

SpecGetProof == Init /\ [][NextGetProof]_vars

InitProof == InitProofVars /\ InitStoreVars

NextProof ==
    \/ \E v \in Values : PushValue(v)
    \/ FromLeaves
    \/ \E i \in 0..MaxLeaves, total \in 0..MaxLeaves : GenerateProof(i, total)
    \/ VerifyProof
    \/ \E v \in Values \cup {<<0, 0>>} : TamperValue(v)
    \/ \E k \in 1..MaxLeaves, h \in Digests : TamperHash(k, h)
    \/ \E k \in 1..MaxLeaves : TamperFlag(k)
    \/ \E h \in Digests : TamperRoot(h)

SpecProof == InitProof /\ [][NextProof]_vars


\* ------------------------------------------------------------------ claims

\* C1 (as claimed): for every non-empty sequence of distinct values, the proof
\* that generate_proof(root, i, n) returns for an index i < n, packaged with
\* values[i] and the tree's root, verifies.
C1_RoundTrip == stage = "verified" => honest

\* the element flipped by TamperFlag carries the digest verify has itself
\* computed so far: the path node was paired with itself by build_tree
SelfPairedFlip ==
    /\ tamper.kind = "flag"
    /\ mproof.proof[tamper.pos].hash
         = RunningHash(mproof.value, mproof.proof, tamper.pos - 1)

\* C2 (as claimed): whatever single component of a generated proof is
\* changed (value, one element's hash, one element's is_left, root), verify
\* returns false.
C2_TamperDetected == stage = "tampered" => ~verdict

\* C2 (amended): for a generated proof that verifies, a single change of the
\* value, of one element's hash or of the root makes verify return false, and
\* flipping one element's is_left makes verify return false exactly when that
\* element's hash differs from the digest computed below it.
C2_TamperDetectedUnlessSelfPaired ==
    (stage = "tampered" /\ honest) => (verdict <=> SelfPairedFlip)

C2_Witness ==
    /\ stage = "tampered"
    /\ honest
    /\ tamper.kind = "flag"
    /\ Len(mproof.proof) = 3
    /\ ~verdict

\* C8 (as claimed): generate_proof called with target_index >= total_leaves,
\* or with total_leaves different from the tree's leaf count, panics and
\* returns no proof elements.
C8_PreconditionFailsLoudly ==
    (/\ stage = "proved"
     /\ \/ call.target_index >= call.total_leaves
        \/ call.total_leaves # mtree.leaf_count)
    => gen.panic


\* the leaf digests below a node
RECURSIVE LeafHashes(_)
LeafHashes(node) ==
    IF is_leaf(node) THEN {node.hash}
    ELSE (IF IsNone(node.left) THEN {} ELSE LeafHashes(Unwrap(node.left)))
           \cup (IF IsNone(node.right) THEN {} ELSE LeafHashes(Unwrap(node.right)))

\* generate_proof was called as its contract asks: an index of the tree and
\* the tree's leaf count
CalledInContract ==
    /\ stage = "proved"
    /\ call.target_index < Len(values)
    /\ call.total_leaves = mtree.leaf_count

\* the descent of generate_proof's helper for the call in contract
CallDescent ==
    helperDescent(Unwrap(mtree.root), call.target_index, 0, call.total_leaves)

\* at every internal node that the helper visits, the child it descends into
\* contains the target leaf
DescendsTowardsTarget ==
    \A k \in 1..Len(CallDescent) :
        Sha256(values[call.target_index + 1]) \in LeafHashes(CallDescent[k].child)

\* at every such node the left child covers ceil(size/2) of the size leaves
\* the node covers
LeftChildCoversHalf ==
    \A k \in 1..Len(CallDescent) :
        Cardinality(LeafHashes(Unwrap(CallDescent[k].node.left)))
          = LeftCount(Cardinality(LeafHashes(CallDescent[k].node)))

\* C11 (as claimed): for a tree built over n >= 1 distinct leaves and an
\* index i < n, at every internal node that generate_proof's helper visits
\* the child it descends into contains leaf i, and the left child built by
\* build_tree covers exactly ceil(size/2) of the size leaves the node covers.
C11_SameHalvingRule ==
    CalledInContract => (DescendsTowardsTarget /\ LeftChildCoversHalf)



\* every node of the subtree below (and including) a node
RECURSIVE Nodes(_)
Nodes(node) ==
    {node}
      \cup (IF IsNone(node.left) THEN {} ELSE Nodes(Unwrap(node.left)))
      \cup (IF IsNone(node.right) THEN {} ELSE Nodes(Unwrap(node.right)))

\* the depths at which the leaves below a node sit, the node being at depth d
RECURSIVE LeafDepths(_, _)
LeafDepths(node, d) ==
    IF is_leaf(node) THEN {d}
    ELSE (IF IsNone(node.left) THEN {} ELSE LeafDepths(Unwrap(node.left), d + 1))
           \cup (IF IsNone(node.right) THEN {}
                 ELSE LeafDepths(Unwrap(node.right), d + 1))

\* the pairing rule as the specification words it: level 0 holds the n
\* leaves, a level of m nodes is followed by one of ceil(m/2) nodes
RECURSIVE LevelSize(_, _)
LevelSize(n, k) == IF k = 0 THEN n ELSE (LevelSize(n, k - 1) + 1) \div 2

\* the number of levels above the leaves: ceil(log2(n))
RECURSIVE LevelsAbove(_)
LevelsAbove(n) == IF n <= 1 THEN 0 ELSE 1 + LevelsAbove((n + 1) \div 2)

\* the digest the rule gives node j (from 1) of level k over the values:
\* hash(value) at level 0; above, the hash of nodes 2j-1 and 2j of the level
\* below, or of node 2j-1 with itself when it is the unpaired last node
RECURSIVE LevelDigest(_, _)
LevelDigest(k, j) ==
    IF k = 0 THEN Sha256(values[j])
    ELSE IF 2 * j <= LevelSize(Len(values), k - 1)
         THEN Sha256(LevelDigest(k - 1, 2 * j - 1) \o LevelDigest(k - 1, 2 * j))
         ELSE Sha256(LevelDigest(k - 1, 2 * j - 1) \o LevelDigest(k - 1, 2 * j - 1))

\* a node has no children, or two and the digest of their digests
NodeWellFormed(node) ==
    \/ IsNone(node.left) /\ IsNone(node.right)
    \/ /\ ~IsNone(node.left)
       /\ ~IsNone(node.right)
       /\ node.hash = Sha256(Unwrap(node.left).hash \o Unwrap(node.right).hash)

\* C12: the tree of MerkleTree::new and every tree of MerkleTree::from_leaves
\* has leaf_count = 0 exactly when it has no root, and leaf_count is the
\* number of leaves given; for n >= 1 every node has no children or exactly
\* two and an internal digest is hash(left.digest || right.digest), all
\* leaves sit ceil(log2(n)) levels below the root, the root digest is the one
\* obtained by pairing every level left to right with an unpaired last node
\* of any level paired with itself, and for n = 1 the root is the leaf.
C12_WellFormed ==
    /\ mtree.leaf_count = 0 <=> IsNone(mtree.root)
    /\ stage = "collect" => mtree = EmptyTree
    /\ stage # "collect" => mtree.leaf_count = Len(values)
    /\ ~IsNone(mtree.root) =>
           LET root == Unwrap(mtree.root)
               n    == Len(values)
           IN  /\ \A node \in Nodes(root) : NodeWellFormed(node)
               /\ LeafDepths(root, 0) = {LevelsAbove(n)}
               /\ LeafHashes(root) = {Sha256(values[i]) : i \in 1..n}
               /\ root.hash = LevelDigest(LevelsAbove(n), 1)
               /\ n = 1 => root = new_leaf(values[1])

\* five leaves: the bottom level (5 nodes) and the one above it (3 nodes)
\* both end in an unpaired node
C12_Witness ==
    /\ stage = "built"
    /\ Len(values) = 5
    /\ LET right == Unwrap(Unwrap(mtree.root).right)
       IN  /\ right.left = right.right
           /\ Unwrap(right.left).left = Unwrap(right.left).right
           /\ is_leaf(Unwrap(Unwrap(right.left).left))


\* ceil(log2(n)) for n >= 1
CeilLog2(n) == CHOOSE k \in 0..n : 2^k >= n /\ \A j \in 0..(k - 1) : 2^j < n

\* position (from 1) in level k of the ancestor of leaf i (from 0)
AncestorPos(i, k) == (i \div 2^k) + 1

\* the ancestor of leaf i in level k is the unpaired last node of the level
SelfPaired(i, k) ==
    /\ AncestorPos(i, k) % 2 = 1
    /\ AncestorPos(i, k) + 1 > LevelSize(Len(values), k)

\* a proof element is the one of level k on the path of leaf i: it carries
\* the digest of the ancestor's sibling in the pair build_tree formed and the
\* sibling's side; an unpaired ancestor is its own sibling, on either side
IsSiblingElement(element, i, k) ==
    LET a == AncestorPos(i, k)
    IN  IF SelfPaired(i, k) THEN element.hash = LevelDigest(k, a)
        ELSE IF a % 2 = 0
             THEN element = [hash |-> LevelDigest(k, a - 1), is_left |-> TRUE]
             ELSE element = [hash |-> LevelDigest(k, a + 1), is_left |-> FALSE]

\* generate_proof returns ceil(log2(n)) elements
ProofLengthIsCeilLog2 ==
    CalledInContract =>
        (~gen.panic /\ Len(gen.proof) = CeilLog2(call.total_leaves))

\* C13 (as claimed): for a tree built over n >= 1 leaves and an index i < n,
\* generate_proof(root, i, n) returns exactly ceil(log2(n)) elements, the
\* first being leaf i's immediate sibling, the k-th the sibling of leaf i's
\* ancestor k - 1 levels up, the last a child of the root.
C13_ProofLengthAndOrder ==
    /\ ProofLengthIsCeilLog2
    /\ CalledInContract =>
           \A k \in 1..Len(gen.proof) :
               IsSiblingElement(gen.proof[k], call.target_index, k - 1)


\* ------------------------------------------------- claims on the storage

\* the result the read that p has under way returns from the current state
PendingResult(p) ==
    IF pc[p] = "rc_held" THEN ListReadResult(loc[p].op, loc[p].arg)
    ELSE IF pc[p] = "rt_held" THEN TreeReadResult(loc[p].op)
    ELSE Result("none", "none")

\* an add_commitment holds the commitments lock
AddHoldsLock(p) == pc[p] \in {"a_locked", "a_built", "a_twait", "a_swap", "a_ret"}
NoAddInProgress == \A p \in Procs : ~AddHoldsLock(p)

\* C3: the commitment at position i has index i, and the indices that
\* add_commitment returned are 0, 1, 2, ... in the order the adds completed,
\* each one the index of a stored commitment.
C3_MonotonicIndices ==
    /\ \A i \in 1..Len(commitments) : commitments[i].index = i - 1
    /\ \A k \in 1..Len(addLog) : addLog[k].index = k - 1
    /\ Len(addLog) <= Len(commitments)

C3_Witness ==
    /\ Len(addLog) >= 1
    /\ \E p, q \in Procs : pc[p] = "a_built" /\ pc[q] = "a_wait"

\* a list observation and a tree observation of one caller
Paired(a, b) == a.kind # "none" /\ b.kind # "none" /\ a.kind # b.kind

\* C4 (as claimed): a caller that reads the commitment list and the tree in
\* two consecutive calls never sees a commitment count different from the
\* tree's leaf_count.
C4_SnapshotConsistent ==
    \A p \in Procs :
        Paired(prev[p], ObsOf(PendingResult(p)))
            => ObsOf(PendingResult(p)).n = prev[p].n

\* C4 (amended): the second of the two reads sees exactly as many leaves
\* (commitments) more than the first saw commitments (leaves) as trees were
\* installed by add_commitment between the two reads; the two agree exactly
\* when no add installed its tree in between.
C4_DiffersByInstalls ==
    \A p \in Procs :
        LET a == prev[p]
            b == ObsOf(PendingResult(p))
        IN  Paired(a, b) => b.n - a.n = b.at - a.at

C4_Witness ==
    \E p \in Procs :
        /\ pc[p] = "rt_held"
        /\ prev[p].kind = "list"
        /\ prev[p].at < installs
        /\ \E q \in Procs : AddHoldsLock(q)

\* root hash of the tree over the values of commitments 1..i
RootOfPrefix(i) ==
    root_hash(from_leaves([k \in 1..i |-> new_leaf(commitments[k].value)]))

\* C5: every stored commitment records the root of the tree over the values
\* up to and including its own, which is the root its add returned; when no
\* add holds the commitments lock the current tree has as many leaves as
\* there are commitments and its root is the last commitment's merkle_root.
C5_RecordedRoot ==
    /\ \A i \in 1..Len(commitments) :
           Some(commitments[i].merkle_root) = RootOfPrefix(i)
    /\ \A k \in 1..Len(addLog) :
           /\ addLog[k].index < Len(commitments)
           /\ addLog[k].root = commitments[addLog[k].index + 1].merkle_root
    /\ NoAddInProgress =>
           /\ tree.leaf_count = Len(commitments)
           /\ commitments = <<>> => IsNone(tree.root)
           /\ commitments # <<>> =>
                  root_hash(tree)
                    = Some(commitments[Len(commitments)].merkle_root)

C5_Witness ==
    /\ NoAddInProgress
    /\ Len(commitments) = 3
    /\ Len(addLog) = 3
    /\ \E p \in Procs : pc[p] = "rt_held"

\* get_commitment(index): NotFound exactly when index >= the number of
\* commitments, otherwise the commitment stored at that index
GetCommitmentExact(p) ==
    (pc[p] = "rc_held" /\ loc[p].op = "get_commitment") =>
        LET r == PendingResult(p)
        IN  /\ r.err = "NotFound" <=> loc[p].arg >= Len(commitments)
            /\ r.err # "NotFound" =>
                   /\ r.err = "Ok"
                   /\ r.list = <<commitments[loc[p].arg + 1]>>

\* C6 (as claimed): in every reachable store state get_commitment(index)
\* returns NotFound exactly when index >= the number of commitments, and
\* get_root_hash returns NotFound exactly when the commitment list is empty.
C6_NotFoundExact ==
    \A p \in Procs :
        /\ GetCommitmentExact(p)
        /\ (pc[p] = "rt_held" /\ loc[p].op = "get_root_hash") =>
               (PendingResult(p).err = "NotFound" <=> commitments = <<>>)

\* C6 (amended): get_commitment as claimed; get_root_hash returns NotFound
\* exactly when no add_commitment has installed its tree yet, and otherwise
\* Ok with the root of the installed tree, never an empty digest.  Whenever
\* no add holds the commitments lock that is exactly when no commitment has
\* been added; NotFound is never returned once an add has completed, and Ok
\* never while the list is empty.
C6_NotFoundUntilInstalled ==
    \A p \in Procs :
        /\ GetCommitmentExact(p)
        /\ (pc[p] = "rt_held" /\ loc[p].op = "get_root_hash") =>
               LET r == PendingResult(p)
               IN  /\ r.err = "NotFound" <=> installs = 0
                   /\ r.err = "NotFound" => addLog = <<>>
                   /\ r.err # "NotFound" =>
                          /\ r.err = "Ok"
                          /\ commitments # <<>>
                          /\ Some(r.root) = RootOfPrefix(installs)
                   /\ NoAddInProgress =>
                          (r.err = "NotFound" <=> commitments = <<>>)

C6_Witness ==
    \E p \in Procs :
        /\ pc[p] = "rt_held"
        /\ loc[p].op = "get_root_hash"
        /\ PendingResult(p).err = "NotFound"
        /\ commitments # <<>>

\* the length in bytes of a value passes validation
ValidLen(v) == 1 <= v[1] /\ v[1] <= MaxValueLen

\* C7: a request is answered InvalidInput exactly when its value is empty or
\* longer than 1,000,000 bytes, and that step changes neither the commitment
\* list nor the tree; a request that goes on to the storage has a value of 1
\* to 1,000,000 bytes.  No stored commitment has a rejected value, and an add
\* of an accepted value returns Ok (never TreeBuildError) with its value
\* stored at the index it returned.
C7_RejectStep ==
    \A p \in Procs :
        /\ (pc[p] = "idle" /\ pc'[p] = "idle" /\ ret'[p] # ret[p]) =>
               /\ ret'[p].op = "add_commitment"
               /\ ret'[p].err = "InvalidInput"
               /\ ~ValidLen(ret'[p].value)
               /\ commitments' = commitments
               /\ tree' = tree
               /\ installs' = installs
        /\ (pc[p] = "idle" /\ pc'[p] = "a_wait") => ValidLen(loc'[p].value)

C7_Stored ==
    /\ \A i \in 1..Len(commitments) : ValidLen(commitments[i].value)
    /\ \A p \in Procs :
           /\ ret[p].op = "add_commitment" =>
                  ret[p].err \in {"Ok", "InvalidInput"}
           /\ (ret[p].op = "add_commitment" /\ ret[p].err = "Ok") =>
                  /\ ValidLen(ret[p].value)
                  /\ ret[p].index < Len(commitments)
                  /\ commitments[ret[p].index + 1].value = ret[p].value

C7_ValidationBeforeMutation == [][C7_RejectStep]_vars /\ []C7_Stored

C7_Witness ==
    \E p, q \in Procs :
        /\ ret[p].err = "InvalidInput"
        /\ ret[p].value[1] > MaxValueLen
        /\ ret[q].op = "add_commitment"
        /\ ret[q].err = "Ok"
        /\ ret[q].value[1] = MaxValueLen

\* C9: no step removes or rewrites a stored commitment or lowers the count;
\* what get_commitment, get_all_commitments and add_commitment returned is
\* what the store still holds at those positions.
C9_AppendStep ==
    /\ Len(commitments') >= Len(commitments)
    /\ \A i \in 1..Len(commitments) : commitments'[i] = commitments[i]

C9_ReturnedStillStored ==
    \A p \in Procs :
        /\ (ret[p].op = "get_commitment" /\ ret[p].err = "Ok") =>
               /\ ret[p].arg < Len(commitments)
               /\ ret[p].list = <<commitments[ret[p].arg + 1]>>
        /\ ret[p].op = "get_all_commitments" =>
               /\ Len(ret[p].list) <= Len(commitments)
               /\ ret[p].list = SubSeq(commitments, 1, Len(ret[p].list))
        /\ (ret[p].op = "add_commitment" /\ ret[p].err = "Ok") =>
               /\ ret[p].index < Len(commitments)
               /\ commitments[ret[p].index + 1]
                    = NewCommitment(ret[p].index, ret[p].value, ret[p].root)

C9_AppendOnly == [][C9_AppendStep]_vars /\ []C9_ReturnedStillStored

C9_Witness ==
    \E p \in Procs :
        /\ ret[p].op = "get_all_commitments"
        /\ Len(ret[p].list) = 1
        /\ Len(commitments) = 3
        /\ NoAddInProgress

\* some call is under way and none of the calls under way can take a step
Stuck ==
    /\ \E p \in Procs : pc[p] # "idle"
    /\ \A p \in Procs : pc[p] # "idle" => ~ENABLED Step(p)

\* C10: no reachable state has every call under way blocked, and with the
\* locks served fairly every call that has started returns.
C10_NoIndefiniteBlocking ==
    /\ []~Stuck
    /\ \A p \in Procs : (pc[p] # "idle") ~> (pc[p] = "idle")

C10_Witness ==
    \E p, q \in Procs :
        /\ pc[p] = "a_twait"
        /\ ~CanGrant(tl, p)
        /\ pc[q] = "rt_held"

\* C14: under any interleaving with add_commitment calls, a caller that read
\* the commitment list (get_all_commitments, commitment_count) and then reads
\* the tree sees a leaf_count of at least the number of commitments it read;
\* in the get_proof handler, once get_commitment(index) has succeeded the
\* tree that get_tree returns has a root and leaf_count > index, so
\* generate_proof is called with target_index < total_leaves = the tree's
\* leaf count and the handler answers with a proof, never with the
\* root-not-found error or a panic.
C14_ReadOrder ==
    \A p \in Procs :
        /\ (pc[p] = "rt_held" /\ prev[p].kind = "list") =>
               /\ tree.leaf_count >= prev[p].n
               /\ PendingResult(p).leaf_count >= prev[p].n
        /\ pc[p] \in {"gp_got", "gp_twait", "gp_theld"} =>
               /\ prev[p] = [kind |-> "item", n |-> loc[p].arg + 1,
                             at |-> prev[p].at]
               /\ prev[p].at <= installs
        /\ pc[p] = "gp_theld" =>
               /\ ~IsNone(tree.root)
               /\ tree.leaf_count > loc[p].arg
               /\ tree.leaf_count >= prev[p].n
               /\ GetProofResult(tree, loc[p].arg, loc[p].value).err = "Ok"
        /\ ret[p].op = "get_proof" =>
               /\ ret[p].err \in {"Ok", "NotFound"}
               /\ ret[p].err = "Ok" => ret[p].arg < ret[p].leaf_count

\* the handler reads the tree after an add installed a tree since its
\* get_commitment, while the next add has pushed its commitment and waits
\* for the tree lock the handler holds
C14_Witness ==
    \E p, q \in Procs :
        /\ pc[p] = "gp_theld"
        /\ prev[p].at < installs
        /\ pc[q] = "a_twait"
        /\ Len(commitments) > tree.leaf_count

=============================================================================
